---- MODULE Spec2Model ----
(***************************************************************************)
(* Model of dynamic_rnn.ipynb: the toy data generator ToySequenceData      *)
(* (constructor and cyclic batch reader `next`) and the last-relevant-     *)
(* output indexing of dynamicRNN.                                          *)
(*                                                                         *)
(* Python lists are 0-indexed; the sequences below are 1-indexed, so the   *)
(* Python item i is element i+1, and every index computed by the code is   *)
(* kept as the code computes it (0-based) and shifted only where a         *)
(* sequence is read.                                                       *)
(*                                                                         *)
(* A float value i/max_value is the pair <<i, max_value>> (numerator,      *)
(* denominator); the padding literal 0. is <<0, 1>>.  Values are compared  *)
(* as rationals (FracEq, FracLeq), never as pairs.  A timestep is the      *)
(* one-element list [v]; it is modelled by its single component v.         *)
(***************************************************************************)
EXTENDS Integers, Sequences, FiniteSets, TLC

VARIABLES
    n_samples, max_seq_len, min_seq_len, max_value, \* constructor arguments
    data, labels, seqlen,                           \* the three parallel lists
    drawn,        \* history: the random draws of each loop iteration
    pc,           \* "constructing", "ready", or the exception raised
    batch_id,     \* the batch cursor (Unset until line 99 has run)
    trace,        \* history: one record per completed call of next
    frames,       \* the calls of next made by concurrent callers: the
                  \* position and the locals of each caller
    overlapped,   \* history: a caller entered next while another was in it
    kernel,       \* dynamicRNN: the device whose gather kernel runs
    seq_max_len,  \* dynamicRNN: global seq_max_len
    outputs,      \* dynamicRNN: per-timestep rows, shape (batch, n_steps)
    rnn_seqlen,   \* dynamicRNN: the seqlen argument
    gathered,     \* dynamicRNN: rows returned by tf.gather
    rnn_pc        \* "built", "done", or the error raised by the gather

genVars == <<n_samples, max_seq_len, min_seq_len, max_value,
             data, labels, seqlen, drawn, pc>>
callVars == <<frames, overlapped>>
nextVars == <<batch_id, trace, callVars>>
rnnVars == <<kernel, seq_max_len, outputs, rnn_seqlen, gathered, rnn_pc>>
vars == <<genVars, nextVars, rnnVars>>

----------------------------------------------------------------------------
(* Bounds of the model *)

MaxSamples == 2      \* n_samples ranges over 0..MaxSamples
MaxSeqLen == 2       \* max_seq_len ranges over 0..MaxSeqLen
MaxValue == 2        \* max_value ranges over 0..MaxValue

Min(a, b) == IF a < b THEN a ELSE b
Max(a, b) == IF a > b THEN a ELSE b

Unset == "unset"     \* an attribute the object does not have yet

----------------------------------------------------------------------------
(* Helpers of the Python runtime *)

\* random.randint(a, b): the values it can return; empty when it raises
\* ValueError (a > b).
Randint(a, b) == a .. b

\* range(a, b) as a sequence
PyRange(a, b) == [k \in 1 .. Max(b - a, 0) |-> a + k - 1]

\* float(i)/m for m # 0
FloatDiv(i, m) == <<i, m>>

Zero == <<0, 1>>     \* the literal 0.

FracEq(p, q) == p[1] * q[2] = q[1] * p[2]
FracLeq(p, q) == p[1] * q[2] <= q[1] * p[2]    \* denominators are positive

----------------------------------------------------------------------------
(* ToySequenceData.__init__ *)

\* Mutant of Padding: one padding entry too few
PaddingShort(len) == [k \in 1 .. Len(PyRange(0, max_seq_len - len - 1)) |-> Zero]

\* [[0.] for i in range(max_seq_len - len)]
Padding(len) == [k \in 1 .. Len(PyRange(0, max_seq_len - len)) |-> Zero]

\* Mutant of LinearSeq: the numerators are not converted before the
\* division, so that it is Python 2's integer division
LinearSeqIntDiv(rand_start, len) ==
    LET r == PyRange(rand_start, rand_start + len)
    IN  [k \in 1 .. Len(r) |-> FloatDiv(r[k] \div max_value, 1)]

\* [[float(i)/max_value] for i in range(rand_start, rand_start + len)]
LinearSeq(rand_start, len) ==
    LET r == PyRange(rand_start, rand_start + len)
    IN  [k \in 1 .. Len(r) |-> FloatDiv(r[k], max_value)]

\* [[float(random.randint(0, max_value))/max_value] for i in range(len)],
\* rs being the values randint returned
RandomSeq(rs) == [k \in 1 .. Len(rs) |-> FloatDiv(rs[k], max_value)]

LinearLabel == <<1, 0>>
RandomLabel == <<0, 1>>

\* Mutant of LenDraws: the lower end of the range is 0, not min_seq_len
LenDrawsFromZero == Randint(0, max_seq_len)

\* line 78: the values of len
LenDraws == Randint(min_seq_len, max_seq_len)

GenInit ==
    /\ n_samples \in 0 .. MaxSamples
    /\ max_seq_len \in 0 .. MaxSeqLen
    /\ min_seq_len \in -1 .. MaxSeqLen + 1
    /\ max_value \in 0 .. MaxValue
    /\ data = <<>>
    /\ labels = <<>>
    /\ seqlen = <<>>
    /\ drawn = <<>>
    /\ pc = "constructing"

\* The end of an iteration that left count items in data: after the last
\* one the loop is over, line 99 creates the cursor and the object is
\* returned
EndIteration(count) ==
    /\ pc' = IF count = n_samples THEN "ready" ELSE pc
    /\ batch_id' = IF count = n_samples THEN 0 ELSE batch_id
    /\ UNCHANGED <<trace, callVars, rnnVars>>

\* line 78 raises: randint on an empty range
RaiseLen ==
    /\ pc = "constructing"
    /\ Len(data) < n_samples
    /\ LenDraws = {}
    /\ pc' = "ValueError"
    /\ UNCHANGED <<n_samples, max_seq_len, min_seq_len, max_value,
                   data, labels, seqlen, drawn, nextVars, rnnVars>>

\* lines 78-84: the linear branch is taken and randint(0, max_value - len)
\* raises; seqlen has already been appended to
RaiseStart ==
    /\ pc = "constructing"
    /\ Len(data) < n_samples
    /\ \E len \in LenDraws :
          /\ Randint(0, max_value - len) = {}
          /\ seqlen' = Append(seqlen, len)
          /\ drawn' = Append(drawn, [len |-> len, linear |-> TRUE,
                                     rand_start |-> Unset])
    /\ pc' = "ValueError"
    /\ UNCHANGED <<n_samples, max_seq_len, min_seq_len, max_value,
                   data, labels, nextVars, rnnVars>>

\* lines 78-93: the random branch is taken and float(...)/max_value divides
\* by zero
RaiseDiv ==
    /\ pc = "constructing"
    /\ Len(data) < n_samples
    /\ \E len \in LenDraws :
          /\ Len(PyRange(0, len)) > 0
          /\ max_value = 0
          /\ seqlen' = Append(seqlen, len)
          /\ drawn' = Append(drawn, [len |-> len, linear |-> FALSE,
                                     rand_start |-> Unset])
    /\ pc' = "ZeroDivisionError"
    /\ UNCHANGED <<n_samples, max_seq_len, min_seq_len, max_value,
                   data, labels, nextVars, rnnVars>>

\* lines 78-90 (and 99 after the last item): one iteration through the
\* linear branch
AppendLinear ==
    /\ pc = "constructing"
    /\ Len(data) < n_samples
    /\ \E len \in LenDraws :
       \E rand_start \in Randint(0, max_value - len) :
          /\ seqlen' = Append(seqlen, len)
          /\ data' = Append(data, LinearSeq(rand_start, len) \o Padding(len))
          /\ labels' = Append(labels, LinearLabel)
          /\ drawn' = Append(drawn, [len |-> len, linear |-> TRUE,
                                     rand_start |-> rand_start])
    /\ EndIteration(Len(data) + 1)
    /\ UNCHANGED <<n_samples, max_seq_len, min_seq_len, max_value>>

\* lines 78-98 (and 99 after the last item): one iteration through the
\* random branch
AppendRandom ==
    /\ pc = "constructing"
    /\ Len(data) < n_samples
    /\ \E len \in LenDraws :
          /\ Len(PyRange(0, len)) > 0 => max_value # 0
          /\ \E rs \in [1 .. Len(PyRange(0, len)) -> Randint(0, max_value)] :
                /\ seqlen' = Append(seqlen, len)
                /\ data' = Append(data, RandomSeq(rs) \o Padding(len))
                /\ labels' = Append(labels, RandomLabel)
                /\ drawn' = Append(drawn, [len |-> len, linear |-> FALSE,
                                           rand_start |-> Unset])
    /\ EndIteration(Len(data) + 1)
    /\ UNCHANGED <<n_samples, max_seq_len, min_seq_len, max_value>>

\* lines 76, 99: range(n_samples) is empty, the loop body never runs
ConstructEmpty ==
    /\ pc = "constructing"
    /\ Len(PyRange(0, n_samples)) = 0
    /\ EndIteration(0)
    /\ UNCHANGED <<n_samples, max_seq_len, min_seq_len, max_value,
                   data, labels, seqlen, drawn>>

----------------------------------------------------------------------------
(* ToySequenceData.next *)

MaxItems == 10       \* the batch reader is run on datasets of 0..MaxItems items
MaxBatch == 4        \* batch_size ranges over -1..MaxBatch and the dataset size
MaxCalls == 4        \* calls of next in one behaviour

\* s[lo:hi] for a list s: negative indices count from the end, and indices
\* beyond either end are clipped
PySlice(s, lo, hi) ==
    LET n == Len(s)
        norm(i) == IF i < 0 THEN Max(i + n, 0) ELSE Min(i, n)
    IN  SubSeq(s, norm(lo) + 1, norm(hi))

\* Mutant of Rewind: the cursor is never reset
RewindNever(id) == id

\* lines 104-105: the cursor the slices start at
Rewind(id) == IF id = Len(data) THEN 0 ELSE id

\* Mutant of SliceEnd: the end is capped one item too early
SliceEndShort(id, batch_size) == Min(id + batch_size, Len(data) - 1)

\* min(self.batch_id + batch_size, len(self.data))
SliceEnd(id, batch_size) == Min(id + batch_size, Len(data))

\* Mutant of NewCursor: the cursor wraps as soon as it reaches the end
NewCursorWrapped(id, batch_size) ==
    IF id + batch_size >= Len(data) THEN 0 ELSE id + batch_size

\* Mutant of NewCursor: the cursor is not capped at the dataset size
NewCursorUncapped(id, batch_size) == id + batch_size

\* The value line 112 stores in self.batch_id
NewCursor(id, batch_size) == Min(id + batch_size, Len(data))

\* One complete call of next(batch_size)
NextBatch(batch_size) ==
    /\ pc = "ready"
    /\ Len(trace) < MaxCalls
    /\ LET id == Rewind(batch_id)
       IN  /\ trace' = Append(trace,
                  [batch_size |-> batch_size,
                   batch_data |-> PySlice(data, id, SliceEnd(id, batch_size)),
                   batch_labels |-> PySlice(labels, id, SliceEnd(id, batch_size)),
                   batch_seqlen |-> PySlice(seqlen, id, SliceEnd(id, batch_size))])
           /\ batch_id' = NewCursor(id, batch_size)
    /\ UNCHANGED <<genVars, callVars, rnnVars>>

\* The batch sizes a caller passes
BatchSizes == (-1 .. MaxBatch) \cup {Len(data)}

Call == \E batch_size \in BatchSizes : NextBatch(batch_size)

\* The draws of the constructor run that builds the reader's dataset: item i
\* (1-based) has length 2 and is linear from i-1 when i is odd, and has
\* length 1 and the random value i when i is even, so that all items differ.
ReaderDraw(i) ==
    [len |-> 1 + (i % 2), linear |-> (i % 2 = 1),
     rand_start |-> IF i % 2 = 1 THEN i - 1 ELSE Unset]

\* A dataset as the constructor leaves it: n items, max_seq_len 2,
\* min_seq_len 1, max_value n + 1
ReaderInit ==
    /\ n_samples \in 0 .. MaxItems
    /\ max_seq_len = 2
    /\ min_seq_len = 1
    /\ max_value = n_samples + 1
    /\ drawn = [i \in 1 .. n_samples |-> ReaderDraw(i)]
    /\ seqlen = [i \in 1 .. n_samples |-> drawn[i].len]
    /\ data = [i \in 1 .. n_samples |->
                 IF drawn[i].linear
                 THEN LinearSeq(drawn[i].rand_start, drawn[i].len)
                          \o Padding(drawn[i].len)
                 ELSE RandomSeq(<<i>>) \o Padding(drawn[i].len)]
    /\ labels = [i \in 1 .. n_samples |->
                   IF drawn[i].linear THEN LinearLabel ELSE RandomLabel]
    /\ pc = "ready"
    /\ batch_id = 0
    /\ trace = <<>>

----------------------------------------------------------------------------
(* dynamicRNN, lines 197-205: the last relevant output of each sequence *)

MaxSteps == 5        \* seq_max_len ranges over 1..MaxSteps
MaxRows == 2         \* the batch holds 1..MaxRows sequences

\* tf.reshape(outputs, [-1, n_hidden]): the rows of all sequences, row-major
Reshape(out) ==
    [j \in 1 .. Len(out) * seq_max_len |->
        out[((j - 1) \div seq_max_len) + 1][((j - 1) % seq_max_len) + 1]]

\* Mutant of Index: the length itself is used as the offset
IndexOffByOne(out, sl) ==
    [b \in 1 .. Len(out) |-> (b - 1) * seq_max_len + sl[b]]

\* tf.range(0, batch_size) * seq_max_len + (seqlen - 1), 0-based row numbers
Index(out, sl) ==
    [b \in 1 .. Len(out) |-> (b - 1) * seq_max_len + (sl[b] - 1)]

InBounds(flat, index) ==
    \A b \in 1 .. Len(index) : 0 <= index[b] /\ index[b] < Len(flat)

\* tf.gather(params, indices) where it returns: an index out of bounds gives
\* a zero row (the GPU kernel; the CPU kernel raises instead)
Gather(flat, index) ==
    [b \in 1 .. Len(index) |->
        IF 0 <= index[b] /\ index[b] < Len(flat) THEN flat[index[b] + 1] ELSE 0]

\* The rows of the batch at line 198.  A row (n_hidden floats) is modelled by
\* one number; row t of sequence b is 10*b + t - 1, so that every row of the
\* batch is different and none is the zero row.
RnnInit ==
    /\ kernel \in {"CPU", "GPU"}
    /\ seq_max_len \in 1 .. MaxSteps
    /\ \E rows \in 1 .. MaxRows :
          /\ outputs = [b \in 1 .. rows |->
                          [t \in 1 .. seq_max_len |-> 10 * b + t - 1]]
          /\ rnn_seqlen \in [1 .. rows -> 0 .. seq_max_len + 1]
    /\ gathered = <<>>
    /\ rnn_pc = "built"

\* lines 201-205 on a kernel that checks the indices (CPU)
GatherChecked ==
    /\ rnn_pc = "built"
    /\ kernel = "CPU"
    /\ LET flat == Reshape(outputs)
           index == Index(outputs, rnn_seqlen)
       IN  IF InBounds(flat, index)
           THEN gathered' = Gather(flat, index) /\ rnn_pc' = "done"
           ELSE gathered' = gathered /\ rnn_pc' = "InvalidArgumentError"
    /\ UNCHANGED <<kernel, seq_max_len, outputs, rnn_seqlen, genVars, nextVars>>

\* lines 201-205 on a kernel that does not (GPU)
GatherUnchecked ==
    /\ rnn_pc = "built"
    /\ kernel = "GPU"
    /\ gathered' = Gather(Reshape(outputs), Index(outputs, rnn_seqlen))
    /\ rnn_pc' = "done"
    /\ UNCHANGED <<kernel, seq_max_len, outputs, rnn_seqlen, genVars, nextVars>>

----------------------------------------------------------------------------
(* ToySequenceData.next called by two threads on one instance.  The        *)
(* interpreter may switch threads between any two bytecodes, so every read *)
(* and every write of self.batch_id is a step of its own; the lists        *)
(* themselves are never written.                                           *)

MaxSharedItems == 4  \* the shared dataset holds 1..MaxSharedItems items
MaxSharedBatch == 3  \* each caller passes a batch_size of 1..MaxSharedBatch

Callers == {"A", "B"}

Idle ==
    [pc |-> "idle", batch_size |-> 0, lower |-> 0, loaded |-> 0,
     batch_data |-> <<>>, batch_labels |-> <<>>, batch_seqlen |-> <<>>]

InNext(t) == frames[t].pc \notin {"idle", "done"}

\* Mutant of AtEnd: the test compares with the last index, not the length
AtEndLastIndex(id) == id = Len(data) - 1

\* line 104: self.batch_id == len(self.data)
AtEnd(id) == id = Len(data)

\* line 101: caller t calls next(batch_size)
Enter(t, batch_size) ==
    /\ pc = "ready"
    /\ frames[t].pc = "idle"
    /\ frames' = [frames EXCEPT ![t].pc = "L104", ![t].batch_size = batch_size]
    /\ overlapped' = (overlapped \/ \E u \in Callers \ {t} : InNext(u))
    /\ UNCHANGED <<genVars, batch_id, trace, rnnVars>>

\* line 104: read self.batch_id and test it
TestCursor(t) ==
    /\ frames[t].pc = "L104"
    /\ frames' = [frames EXCEPT
                    ![t].pc = IF AtEnd(batch_id) THEN "L105" ELSE "L106"]
    /\ UNCHANGED <<genVars, batch_id, trace, overlapped, rnnVars>>

\* line 105: self.batch_id = 0
ResetCursor(t) ==
    /\ frames[t].pc = "L105"
    /\ batch_id' = 0
    /\ frames' = [frames EXCEPT ![t].pc = "L106"]
    /\ UNCHANGED <<genVars, trace, overlapped, rnnVars>>

\* lines 106, 108, 110: read self.batch_id as the lower end of the slice
ReadLower(t) ==
    /\ frames[t].pc \in {"L106", "L108", "L110"}
    /\ frames' = [frames EXCEPT
                    ![t].lower = batch_id,
                    ![t].pc = CASE frames[t].pc = "L106" -> "L107"
                                [] frames[t].pc = "L108" -> "L109"
                                [] frames[t].pc = "L110" -> "L111"]
    /\ UNCHANGED <<genVars, batch_id, trace, overlapped, rnnVars>>

\* lines 106-107, 108-109, 110-111: read self.batch_id again for the upper
\* end, min(self.batch_id + batch_size, len(self.data)), and take the slice
TakeSlice(t) ==
    /\ frames[t].pc \in {"L107", "L109", "L111"}
    /\ LET upper == SliceEnd(batch_id, frames[t].batch_size)
       IN  frames' = [frames EXCEPT
             ![t].batch_data =
                 IF frames[t].pc = "L107"
                 THEN PySlice(data, frames[t].lower, upper) ELSE @,
             ![t].batch_labels =
                 IF frames[t].pc = "L109"
                 THEN PySlice(labels, frames[t].lower, upper) ELSE @,
             ![t].batch_seqlen =
                 IF frames[t].pc = "L111"
                 THEN PySlice(seqlen, frames[t].lower, upper) ELSE @,
             ![t].lower = 0,
             ![t].pc = CASE frames[t].pc = "L107" -> "L108"
                         [] frames[t].pc = "L109" -> "L110"
                         [] frames[t].pc = "L111" -> "L112"]
    /\ UNCHANGED <<genVars, batch_id, trace, overlapped, rnnVars>>

\* line 112, right-hand side: read self.batch_id and compute the new cursor
LoadCursor(t) ==
    /\ frames[t].pc = "L112"
    /\ frames' = [frames EXCEPT
                    ![t].loaded = NewCursor(batch_id, frames[t].batch_size),
                    ![t].pc = "L112store"]
    /\ UNCHANGED <<genVars, batch_id, trace, overlapped, rnnVars>>

\* lines 112-113: store the new cursor and return the three slices
StoreCursor(t) ==
    /\ frames[t].pc = "L112store"
    /\ batch_id' = frames[t].loaded
    /\ frames' = [frames EXCEPT ![t].loaded = 0, ![t].pc = "done"]
    /\ UNCHANGED <<genVars, trace, overlapped, rnnVars>>

\* A fresh instance of 1..MaxSharedItems items that no caller has used yet
CallersInit ==
    /\ ReaderInit
    /\ n_samples \in 1 .. MaxSharedItems
    /\ frames = [t \in Callers |-> Idle]
    /\ overlapped = FALSE

----------------------------------------------------------------------------
(* Specifications *)

\* Parts of the state a specification does not exercise
NoDataset ==
    /\ n_samples = 0 /\ max_seq_len = 0 /\ min_seq_len = 0 /\ max_value = 0
    /\ data = <<>> /\ labels = <<>> /\ seqlen = <<>> /\ drawn = <<>>
    /\ pc = "constructing"
NoCursor == batch_id = Unset /\ trace = <<>>
NoCallers == frames = <<>> /\ overlapped = FALSE
NoRnn ==
    /\ kernel = "none" /\ seq_max_len = 0 /\ outputs = <<>>
    /\ rnn_seqlen = <<>> /\ gathered = <<>> /\ rnn_pc = "none"

\* The constructor, from its call to its return or its exception
Init == GenInit /\ NoCursor /\ NoCallers /\ NoRnn
Next ==
    \/ RaiseLen
    \/ RaiseStart
    \/ RaiseDiv
    \/ AppendLinear
    \/ AppendRandom
    \/ ConstructEmpty
Spec == Init /\ [][Next]_vars

\* The batch reader on a constructed dataset
InitReader == ReaderInit /\ NoCallers /\ NoRnn
NextReader == Call
SpecReader == InitReader /\ [][NextReader]_vars

\* The gather of dynamicRNN on one batch
InitRnn == RnnInit /\ NoDataset /\ NoCursor /\ NoCallers
NextRnn == GatherChecked \/ GatherUnchecked
SpecRnn == InitRnn /\ [][NextRnn]_vars

\* Two threads, each calling next once on the same instance
InitCallers == CallersInit /\ NoRnn
NextCallers ==
    \E t \in Callers :
        \/ \E batch_size \in 1 .. MaxSharedBatch : Enter(t, batch_size)
        \/ TestCursor(t)
        \/ ResetCursor(t)
        \/ ReadLower(t)
        \/ TakeSlice(t)
        \/ LoadCursor(t)
        \/ StoreCursor(t)
SpecCallers == InitCallers /\ [][NextCallers]_vars

----------------------------------------------------------------------------
(* Properties of the batch reader, checked under SpecReader *)

N == Len(data)

\* Every call so far was passed batch_size bs
FixedSize(bs) == \A j \in 1 .. Len(trace) : trace[j].batch_size = bs

Sizes == [j \in 1 .. Len(trace) |-> Len(trace[j].batch_data)]

\* With a fixed batch size bs >= 1 on N >= 1 items, one pass is N \div bs
\* full batches followed, when bs does not divide N, by one short batch:
\* the 0-based index at which the j-th batch of a run starts, and its size
PassLen(bs) == (N \div bs) + (IF N % bs = 0 THEN 0 ELSE 1)
StartOf(j, bs) == ((j - 1) % PassLen(bs)) * bs
SizeOf(j, bs) == IF (j - 1) % PassLen(bs) < N \div bs THEN bs ELSE N % bs

\* Batch j is the short batch that ends a pass
IsShort(j, bs) == N % bs # 0 /\ Sizes[j] = N % bs /\ Sizes[j] < bs

\* C1 as stated: with a fixed batch_size >= 1 on N >= 1 items no batch is
\* empty, every batch is a full batch of batch_size items or the short batch
\* of N mod batch_size items, batch j is the slice of data the cycle puts
\* there (never a concatenation across the wrap), and the call that follows
\* a short batch returns a full-sized batch of batch_size items starting at
\* index 0.
C1_AsStated ==
    \A bs \in 1 .. MaxBatch + MaxItems :
        (N >= 1 /\ pc = "ready" /\ FixedSize(bs)) =>
            \A j \in 1 .. Len(trace) :
                /\ Sizes[j] > 0
                /\ Sizes[j] = bs \/ IsShort(j, bs)
                /\ trace[j].batch_data
                     = SubSeq(data, StartOf(j, bs) + 1, StartOf(j, bs) + Sizes[j])
                /\ (j > 1 /\ IsShort(j - 1, bs)) =>
                     (StartOf(j, bs) = 0 /\ Sizes[j] = bs)

\* C1 as amended: with a fixed batch_size >= 1 on N >= 1 items no batch is
\* empty, and batch j is exactly the slice the cycle puts there: items
\* StartOf(j) .. StartOf(j) + SizeOf(j) - 1, the sizes being batch_size for
\* the N div batch_size full batches of a pass and N mod batch_size for the
\* short batch that ends it; the call after a short batch starts at index 0
\* again and returns min(batch_size, N) items, which is a full batch only
\* when batch_size <= N.  For N = 10 and batch_size = 4 the sizes are
\* 4, 4, 2, 4.
C1_CyclicBatches ==
    \A bs \in 1 .. MaxBatch + MaxItems :
        (N >= 1 /\ pc = "ready" /\ FixedSize(bs)) =>
            /\ \A j \in 1 .. Len(trace) :
                /\ Sizes[j] > 0
                /\ Sizes[j] = SizeOf(j, bs)
                /\ trace[j].batch_data
                     = SubSeq(data, StartOf(j, bs) + 1, StartOf(j, bs) + SizeOf(j, bs))
                /\ (j > 1 /\ IsShort(j - 1, bs)) =>
                     /\ StartOf(j, bs) = 0
                     /\ Sizes[j] = Min(bs, N)
                     /\ (bs <= N => Sizes[j] = bs)
            /\ (N = 10 /\ bs = 4) =>
                 \A j \in 1 .. Len(trace) : Sizes[j] = <<4, 4, 2, 4, 4, 2>>[((j - 1) % 6) + 1]

\* Witness of C1: four calls with batch_size 4 on 10 items returned batches
\* of 4, 4, 2 and 4 items
C1_Witness ==
    /\ N = 10 /\ Len(trace) = 4 /\ FixedSize(4)
    /\ Sizes = <<4, 4, 2, 4>>
    /\ trace[4].batch_data = SubSeq(data, 1, 4)

\* C2 as stated: when every call is passed batch_size = N (N >= 1), every
\* call returns the whole dataset in order and the cursor is 0 once the call
\* has completed.
C2_AsStated ==
    (N >= 1 /\ pc = "ready" /\ Len(trace) >= 1 /\ FixedSize(N)) =>
        /\ \A j \in 1 .. Len(trace) :
              /\ trace[j].batch_data = data
              /\ trace[j].batch_labels = labels
              /\ trace[j].batch_seqlen = seqlen
        /\ batch_id = 0

\* C2 as amended: when every call is passed batch_size = N (N >= 1), every
\* call returns the whole dataset in order; once a call has completed the
\* cursor is N, not 0, and it is the check at the start of the next call
\* that takes it back to 0.
C2_FullDatasetEveryCall ==
    (N >= 1 /\ pc = "ready" /\ Len(trace) >= 1 /\ FixedSize(N)) =>
        /\ \A j \in 1 .. Len(trace) :
              /\ trace[j].batch_data = data
              /\ trace[j].batch_labels = labels
              /\ trace[j].batch_seqlen = seqlen
        /\ batch_id = N
        /\ batch_id # 0
        /\ Rewind(batch_id) = 0

\* Witness of C2: three calls with batch_size = N on a dataset of 3 items
C2_Witness ==
    /\ N = 3 /\ Len(trace) = 3 /\ FixedSize(N)
    /\ trace[3].batch_data = data
    /\ batch_id = N

\* Every call so far was passed a batch size of at least lo
SizesAtLeast(lo) == \A j \in 1 .. Len(trace) : trace[j].batch_size >= lo

\* C8 as stated: once the object is constructed the cursor is an integer in
\* [0, N], whatever integer batch sizes next was passed.
C8_AsStated == pc = "ready" => batch_id \in 0 .. N

\* C8 as amended: once the object is constructed the cursor is an integer in
\* [0, N] after every call of any sequence of calls that were passed
\* batch sizes >= 0; a negative batch_size takes it below 0.
C8_CursorInRange ==
    (pc = "ready" /\ SizesAtLeast(0)) => batch_id \in 0 .. N

\* Witness of C8: a call whose batch_size exceeds what is left of the
\* dataset, made after a call passed 0, left the cursor capped at N
C8_Witness ==
    /\ N = 3 /\ Len(trace) = 3 /\ SizesAtLeast(0)
    /\ trace[1].batch_size = 2 /\ trace[2].batch_size = 0
    /\ trace[3].batch_size = 4
    /\ batch_id = N

\* The items, labels and lengths returned so far, in the order returned
RECURSIVE Returned(_, _)
Returned(field, j) ==
    IF j = 0 THEN <<>> ELSE Returned(field, j - 1) \o trace[j][field]

\* s is a prefix of list repeated cyclically
CyclicPrefix(s, list) ==
    \A i \in 1 .. Len(s) : s[i] = list[((i - 1) % Len(list)) + 1]

\* The dataset the constructor built for n_samples items (see ReaderInit)
BuiltData ==
    [i \in 1 .. n_samples |->
        IF i % 2 = 1 THEN <<FloatDiv(i - 1, max_value), FloatDiv(i, max_value)>>
                     ELSE <<FloatDiv(i, max_value), Zero>>]

\* C10: on N >= 1 items and after any sequence of calls with positive batch
\* sizes, data, labels and seqlen are what the constructor built, the three
\* slices of each call are the same index range [c, c+k) of the three lists,
\* and the batches returned so far, concatenated, are a prefix of the
\* dataset repeated cyclically.
C10_ServesDatasetInOrder ==
    (N >= 1 /\ pc = "ready" /\ SizesAtLeast(1)) =>
        /\ data = BuiltData
        /\ seqlen = [i \in 1 .. n_samples |-> 1 + (i % 2)]
        /\ labels = [i \in 1 .. n_samples |->
                       IF i % 2 = 1 THEN LinearLabel ELSE RandomLabel]
        /\ \A j \in 1 .. Len(trace) :
              \E c \in 0 .. N - 1 : \E k \in 1 .. N - c :
                 /\ trace[j].batch_data = SubSeq(data, c + 1, c + k)
                 /\ trace[j].batch_labels = SubSeq(labels, c + 1, c + k)
                 /\ trace[j].batch_seqlen = SubSeq(seqlen, c + 1, c + k)
        /\ CyclicPrefix(Returned("batch_data", Len(trace)), data)
        /\ CyclicPrefix(Returned("batch_labels", Len(trace)), labels)
        /\ CyclicPrefix(Returned("batch_seqlen", Len(trace)), seqlen)

\* Witness of C10: calls with batch sizes 2, 3, 1, 4 on 5 items served the
\* dataset once and went on into the second pass
C10_Witness ==
    /\ N = 5 /\ Len(trace) = 4
    /\ [j \in 1 .. 4 |-> trace[j].batch_size] = <<2, 3, 1, 4>>
    /\ Sizes = <<2, 3, 1, 4>>
    /\ Len(Returned("batch_data", 4)) = 10

----------------------------------------------------------------------------
(* Properties of the constructor, checked under Spec *)

\* The parameters the specification calls valid
ValidParams == min_seq_len <= max_seq_len /\ max_value >= max_seq_len

IsZero(v) == FracEq(v, Zero)

WellFormed ==
    /\ Len(data) = n_samples
    /\ Len(labels) = n_samples
    /\ Len(seqlen) = n_samples
    /\ \A i \in 1 .. Len(data) :
          /\ min_seq_len <= seqlen[i] /\ seqlen[i] <= max_seq_len
          /\ Len(data[i]) = max_seq_len
          \* the 0-based indices >= seqlen[i] are the elements k > seqlen[i]
          /\ \A k \in 1 .. Len(data[i]) : k - 1 >= seqlen[i] => IsZero(data[i][k])

OneHot(label) ==
    /\ Len(label) = 2
    /\ \E c \in 1 .. 2 : label[c] = 1 /\ \A d \in (1 .. 2) \ {c} : label[d] = 0

\* v is the value q/max_value
IsOver(v, q) == FracEq(v, <<q, max_value>>)

\* C6: in every dataset the constructor returns for valid parameters each
\* label is one-hot over 2 classes; it is [1,0] exactly when the linear
\* branch ran, and then the seqlen[i] values are (start+k)/max_value,
\* k = 0..seqlen[i]-1, with 0 <= start <= max_value - seqlen[i], each step
\* being 1/max_value and every value in [0,1]; it is [0,1] exactly when the
\* random branch ran, and then every value is an integer of [0, max_value]
\* over max_value.
C6_LabelsMatchBranch ==
    (pc = "ready" /\ ValidParams) =>
        \A i \in 1 .. Len(data) :
            /\ OneHot(labels[i])
            /\ labels[i] = <<1, 0>> <=> drawn[i].linear
            /\ labels[i] = <<0, 1>> <=> ~drawn[i].linear
            /\ drawn[i].linear =>
                 /\ 0 <= drawn[i].rand_start
                 /\ drawn[i].rand_start <= max_value - seqlen[i]
                 /\ \A k \in 1 .. seqlen[i] :
                       /\ IsOver(data[i][k], drawn[i].rand_start + k - 1)
                       /\ FracLeq(Zero, data[i][k]) /\ FracLeq(data[i][k], <<1, 1>>)
                 /\ \A k \in 1 .. seqlen[i] - 1 :
                       \* data[i][k+1] - data[i][k] = 1/max_value, and > 0
                       /\ (data[i][k + 1][1] * data[i][k][2]
                             - data[i][k][1] * data[i][k + 1][2]) * max_value
                          = data[i][k][2] * data[i][k + 1][2]
                       /\ ~FracLeq(data[i][k + 1], data[i][k])
            /\ ~drawn[i].linear =>
                 \A k \in 1 .. seqlen[i] :
                    \E q \in 0 .. max_value : IsOver(data[i][k], q)

\* Witness of C6: a returned dataset with a linear item of two values and a
\* random item
C6_Witness ==
    /\ pc = "ready" /\ ValidParams /\ n_samples = 2
    /\ labels = <<LinearLabel, RandomLabel>>
    /\ seqlen = <<2, 2>>
    /\ drawn[1].linear /\ ~drawn[2].linear
    /\ IsOver(data[1][2], drawn[1].rand_start + 1)

\* C7: with min_seq_len > max_seq_len or max_value < max_seq_len and
\* n_samples >= 1 the constructor raises, whatever is drawn, and never
\* returns a dataset.
C7_InvalidParamsRaise ==
    (n_samples >= 1 /\ ~ValidParams) => pc # "ready"

SeqlenInRange == \A i \in 1 .. Len(seqlen) : 0 < seqlen[i] /\ seqlen[i] <= max_seq_len

\* C9 as stated: every sequence of every dataset built from parameters with
\* min_seq_len <= max_seq_len and max_value >= max_seq_len, no other
\* restriction, has 0 < seqlen[i] <= max_seq_len.
C9_AsStated == (pc = "ready" /\ ValidParams) => SeqlenInRange

\* C9 as amended: every sequence of every dataset built from parameters with
\* 1 <= min_seq_len <= max_seq_len and max_value >= max_seq_len has
\* 0 < seqlen[i] <= max_seq_len, so that every slice of seqlen meets the
\* gather's precondition; with min_seq_len <= 0 a length of 0 or less can be
\* drawn.
C9_SeqlenInRange ==
    (pc = "ready" /\ ValidParams /\ min_seq_len >= 1) => SeqlenInRange

\* Witness of C9: a returned dataset with the lengths 1 and max_seq_len
C9_Witness ==
    /\ pc = "ready" /\ ValidParams /\ min_seq_len = 1 /\ max_seq_len = 2
    /\ seqlen = <<1, 2>>

----------------------------------------------------------------------------
(* Properties of the gather of dynamicRNN, checked under SpecRnn *)

LengthsInRange ==
    \A b \in 1 .. Len(rnn_seqlen) :
        1 <= rnn_seqlen[b] /\ rnn_seqlen[b] <= seq_max_len

\* C3: when every true length is in [1, seq_max_len] the gather raises
\* nothing and row b of its result is timestep rnn_seqlen[b] - 1 (0-based)
\* of sequence b: the first timestep for length 1, the last for length
\* seq_max_len, never a timestep of another sequence; for the rows
\* [[10..14],[20..24]] and the lengths [3,1] the result is [12, 20].
C3_GathersLastValidTimestep ==
    LengthsInRange =>
        /\ rnn_pc \in {"none", "built", "done"}
        /\ rnn_pc = "done" =>
             /\ Len(gathered) = Len(outputs)
             /\ \A b \in 1 .. Len(outputs) :
                   /\ gathered[b] = outputs[b][rnn_seqlen[b]]
                   /\ rnn_seqlen[b] = 1 => gathered[b] = outputs[b][1]
                   /\ rnn_seqlen[b] = seq_max_len =>
                        gathered[b] = outputs[b][Len(outputs[b])]
                   /\ \A c \in (1 .. Len(outputs)) \ {b} :
                      \A t \in 1 .. seq_max_len : gathered[b] # outputs[c][t]
             /\ (outputs = << <<10, 11, 12, 13, 14>>, <<20, 21, 22, 23, 24>> >>
                   /\ rnn_seqlen = <<3, 1>>) => gathered = <<12, 20>>

\* Witness of C3: the gather has run on the rows [[10..14],[20..24]] with
\* the lengths [3,1]
C3_Witness ==
    /\ rnn_pc = "done"
    /\ outputs = << <<10, 11, 12, 13, 14>>, <<20, 21, 22, 23, 24>> >>
    /\ rnn_seqlen = <<3, 1>>
    /\ gathered = <<12, 20>>

\* C4: whenever some true length is outside [1, seq_max_len] the gather
\* ends in an index error and returns no rows.
C4_OutOfRangeFailsLoudly ==
    (rnn_pc \notin {"none", "built"} /\ ~LengthsInRange) =>
        rnn_pc = "InvalidArgumentError"

----------------------------------------------------------------------------
(* Properties of two callers of next, checked under SpecCallers *)

\* What one uninterrupted call of next(bs) does at cursor id: the index
\* range [lo, hi) it returns; hi is also the cursor it leaves
SerialCall(id, bs) ==
    LET c == IF id = N THEN 0 ELSE id
    IN  [lo |-> c, hi |-> IF c + bs < N THEN c + bs ELSE N]

\* Caller t has returned the items [r.lo, r.hi) of the three lists
ReturnedRange(t, r) ==
    /\ frames[t].pc = "done"
    /\ frames[t].batch_data = SubSeq(data, r.lo + 1, r.hi)
    /\ frames[t].batch_labels = SubSeq(labels, r.lo + 1, r.hi)
    /\ frames[t].batch_seqlen = SubSeq(seqlen, r.lo + 1, r.hi)

\* The state is what the call of `first` followed by the call of `second`
\* leaves, each run without interruption from the fresh cursor 0
SerialOutcome(first, second) ==
    LET a == SerialCall(0, frames[first].batch_size)
        b == SerialCall(a.hi, frames[second].batch_size)
    IN  /\ ReturnedRange(first, a)
        /\ ReturnedRange(second, b)
        /\ batch_id = b.hi

BothDone == \A t \in Callers : frames[t].pc = "done"

Serializable == SerialOutcome("A", "B") \/ SerialOutcome("B", "A")

\* C11: next is not safe for two callers of one instance.  Whenever the
\* calls did not overlap (one caller alone, or one call completed before
\* the other was entered) the outcome is that of the calls run one after
\* the other; every outcome that no sequential order of the two calls
\* produces comes from calls that overlapped.  That such outcomes are
\* reachable is C11_Witness.
C11_OnlyOverlapBreaksSequential ==
    (pc = "ready" /\ frames # <<>>) =>
        /\ \A t \in Callers :
              (frames[t].pc = "done"
                 /\ \A u \in Callers \ {t} : frames[u].pc = "idle") =>
                 /\ ReturnedRange(t, SerialCall(0, frames[t].batch_size))
                 /\ batch_id = SerialCall(0, frames[t].batch_size).hi
        /\ (BothDone /\ ~overlapped) => Serializable
        /\ (BothDone /\ ~Serializable) => overlapped

\* Witness of C11: on 3 items both callers passed batch_size 1, their calls
\* overlapped, both returned the same slice (item 0) and the cursor went
\* forward by one batch only, which neither sequential order produces
C11_Witness ==
    /\ N = 3 /\ BothDone /\ overlapped
    /\ frames["A"].batch_size = 1 /\ frames["B"].batch_size = 1
    /\ frames["A"].batch_data = SubSeq(data, 1, 1)
    /\ frames["B"].batch_data = frames["A"].batch_data
    /\ frames["B"].batch_labels = frames["A"].batch_labels
    /\ frames["B"].batch_seqlen = frames["A"].batch_seqlen
    /\ batch_id = 1
    /\ ~Serializable

====
